---- MODULE Spec2Model ----
(***************************************************************************)
(* Model of the Rulia plugin for mto.to (src/src/index.ts).                *)
(*                                                                         *)
(* The file holds two revisions of the same four handlers (a jQuery one,   *)
(* lines 1-262, and a cheerio one, lines 264-503) with the same control    *)
(* flow; the model follows the jQuery revision line by line and notes      *)
(* where the cheerio revision differs.                                     *)
(*                                                                         *)
(* A JavaScript string is a sequence of one-character strings; a literal   *)
(* of the source that no input can produce part of is kept as one element. *)
(* An optional value (undefined or a value) is a sequence of length <= 1.  *)
(* A document is the answer the parsed tree gives to the selectors the     *)
(* handlers query.  The host is the environment: it invokes the handlers,  *)
(* resolves or rejects each httpRequest, and receives the calls recorded   *)
(* in trace.                                                               *)
(***************************************************************************)
EXTENDS Integers, Sequences, FiniteSets, TLC

\* ------------------------------------------------------------------ bounds
MaxPageLen == 2
MaxKeywordLen == 1
MaxItems == 1
MaxChapters == 1
MaxScripts == 2
MaxImages == 2
NumInvocations == 2

\* ----------------------------------------------------------------- strings
Empty == <<>>
Undefined == <<>>
Some(v) == <<v>>

DigitChars == <<"0", "1", "2", "3", "4", "5", "6", "7", "8", "9">>
IsDigit(c) == \E i \in 1..10 : DigitChars[i] = c
DigitVal(c) == (CHOOSE i \in 1..10 : DigitChars[i] = c) - 1
IsWhiteSpace(c) == c = " "

RECURSIVE TrimStart(_)
TrimStart(s) ==
  IF s # Empty /\ IsWhiteSpace(Head(s)) THEN TrimStart(Tail(s)) ELSE s

RECURSIVE DigitPrefix(_)
DigitPrefix(s) ==
  IF s # Empty /\ IsDigit(Head(s)) THEN <<Head(s)>> \o DigitPrefix(Tail(s)) ELSE Empty

RECURSIVE DecimalValue(_)
DecimalValue(d) ==
  IF d = Empty THEN 0 ELSE 10 * DecimalValue(SubSeq(d, 1, Len(d) - 1)) + DigitVal(d[Len(d)])

NaN == [nan |-> TRUE, val |-> 0]
Num(n) == [nan |-> FALSE, val |-> n]

\* parseInt(value) with no radix: leading white space is skipped, one sign is
\* read, then the longest run of decimal digits; what follows is ignored; with
\* no digit the result is NaN.  (No input of the model starts with 0x.)
parseInt(value) ==
  LET t == TrimStart(value)
      signed == t # Empty /\ Head(t) \in {"+", "-"}
      u == IF signed THEN Tail(t) ELSE t
      d == DigitPrefix(u)
  IN IF d = Empty THEN NaN
     ELSE Num(IF signed /\ Head(t) = "-" THEN 0 - DecimalValue(d) ELSE DecimalValue(d))

\* parseIntSafe with its default fallback used where the caller's is not.
parseIntSafeDefaultFallback(value, fallback) ==
  LET parsed == parseInt(value) IN IF parsed.nan THEN 0 ELSE parsed.val

parseIntSafe(value, fallback) ==
  LET parsed == parseInt(value) IN IF parsed.nan THEN fallback ELSE parsed.val

RECURSIVE NatToString(_)
NatToString(n) ==
  IF n < 10 THEN <<DigitChars[n + 1]>> ELSE NatToString(n \div 10) \o <<DigitChars[(n % 10) + 1]>>

\* Number-to-string conversion of a template literal or of string + number.
NumberToString(n) == IF n < 0 THEN <<"-">> \o NatToString(0 - n) ELSE NatToString(n)

\* A lone surrogate code unit, for which encodeURIComponent throws URIError.
LoneSurrogate == "\\uD800"
Unreserved == {"a", "b", "T", "0", "1", "2", "-", "_", ".", "!", "~", "*", "'", "(", ")"}
EscapeChar(c) ==
  IF c \in Unreserved THEN <<c>>
  ELSE IF c = " " THEN <<"%", "2", "0">>
  ELSE IF c = "&" THEN <<"%", "2", "6">>
  ELSE IF c = "/" THEN <<"%", "2", "F">>
  ELSE <<"%", "?", "?">>

RECURSIVE EscapeAll(_)
EscapeAll(s) == IF s = Empty THEN Empty ELSE EscapeChar(Head(s)) \o EscapeAll(Tail(s))

\* The keyword put into the URL as it is.
encodeURIComponentRaw(s) ==
  IF \E i \in 1..Len(s) : s[i] = LoneSurrogate
  THEN [ok |-> FALSE, val |-> Empty, message |-> "URI malformed"]
  ELSE [ok |-> TRUE, val |-> s, message |-> ""]

encodeURIComponent(s) ==
  IF \E i \in 1..Len(s) : s[i] = LoneSurrogate
  THEN [ok |-> FALSE, val |-> Empty, message |-> "URI malformed"]
  ELSE [ok |-> TRUE, val |-> EscapeAll(s), message |-> ""]

\* `${x}` of an optional string.
TemplateOf(opt) == IF opt = Undefined THEN <<"undefined">> ELSE opt[1]

\* JavaScript truthiness of an optional string.
Truthy(opt) == opt # Undefined /\ opt[1] # Empty

\* String(x) in place of x || ''
OrUndefinedText(opt) == TemplateOf(opt)

\* x || ''
OrEmpty(opt) == IF Truthy(opt) THEN opt[1] ELSE Empty

\* --------------------------------------------------------------- documents
\* A matched element: its text and the attributes the handlers read.
Node(text, href, src) == [text |-> text, href |-> href, src |-> src]

\* What the selectors of the handlers find in a parsed document:
\*   seriesList    the elements matching '#series-list', each the sequence of
\*                 its '.item' children, an item being what '.item-title' and
\*                 '.item-cover img' match inside it
\*   itemTitle     '.item-title' in the whole document
\*   summary       '#limit-height-body-summary .limit-html'
\*   attrCoverImg  the img children of '.attr-cover'
\*   episodeMain   the elements matching '.episode-list .main', each the
\*                 sequence of its '.item' children, an item being what
\*                 '.chapt' matches inside it
\*   scripts       the script elements, each by its text
EmptyDoc ==
  [seriesList |-> <<>>, itemTitle |-> <<>>, summary |-> <<>>, attrCoverImg |-> <<>>,
   episodeMain |-> <<>>, scripts |-> <<>>]

\* Response bodies: the text of an HTML document, JSON text (of an object whose
\* res is absent, or holds html, the text of an HTML document), or other text.
HtmlText(doc) == [kind |-> "html", res |-> <<>>, doc |-> doc]
JsonText(res) == [kind |-> "json", res |-> res, doc |-> EmptyDoc]
PlainText == [kind |-> "text", res |-> <<>>, doc |-> EmptyDoc]
Envelope(doc) == JsonText(<<[html |-> HtmlText(doc), more |-> TRUE]>>)
ErrorEnvelope == JsonText(<<>>)

Ok(v) == [ok |-> TRUE, val |-> v, message |-> ""]
Throw(m) == [ok |-> FALSE, val |-> <<>>, message |-> m]

\* $.parseHTML / load: lenient, text without markup has no element.
ParseHTML(text) == IF text.kind = "html" THEN text.doc ELSE EmptyDoc

\* JSON.parse
JSONParse(text) ==
  IF text.kind = "json" THEN Ok([res |-> text.res])
  ELSE Throw("Unexpected token in JSON")

\* $(rawStr) of handleMangaListSearch: markup is parsed; any other text is
\* taken as a selector, which matches nothing or is a syntax error (JSON text
\* always is one).  The cheerio revision's load(rawStr) never throws.
DollarOutcomes(text) ==
  IF text.kind = "html" THEN {Ok(text.doc)}
  ELSE {Ok(EmptyDoc), Throw("Syntax error, unrecognized expression")}

RECURSIVE Flatten(_)
Flatten(ss) == IF ss = <<>> THEN <<>> ELSE Head(ss) \o Flatten(Tail(ss))

\* $x.find(sel).children('.item')
Children(containers) == Flatten(containers)

RECURSIVE TextOf(_)
\* .text(): the texts of all matched elements, concatenated.
TextOf(nodes) == IF nodes = <<>> THEN Empty ELSE Head(nodes).text \o TextOf(Tail(nodes))

\* .attr(name): the attribute of the first matched element, else undefined.
AttrHref(nodes) == IF nodes = <<>> THEN Undefined ELSE nodes[1].href
AttrSrc(nodes) == IF nodes = <<>> THEN Undefined ELSE nodes[1].src

Origin == <<"https://mto.to">>

\* The origin prefixed whatever the href.
AbsoluteAlways(href) == Origin \o TemplateOf(href)

\* $a.attr('href') ? `https://mto.to${$a.attr('href')}` : ''
Absolute(href) == IF Truthy(href) THEN Origin \o TemplateOf(href) ELSE Empty

\* The body of the $mangaList.each callback.
MangaSummary(item) ==
  [title |-> TextOf(item.title),
   url |-> Absolute(AttrHref(item.title)),
   coverUrl |-> OrEmpty(AttrSrc(item.cover))]

RECURSIVE PushMangaList(_, _)
\* $mangaList.each(... result.list.push(...)) onto the list so far.
PushMangaList(list, items) ==
  IF items = <<>> THEN list
  ELSE PushMangaList(Append(list, MangaSummary(Head(items))), Tail(items))

ChapterRef(item) ==
  [title |-> TextOf(item.chapt), url |-> Absolute(AttrHref(item.chapt))]

RECURSIVE PushChapterList(_, _)
PushChapterList(list, items) ==
  IF items = <<>> THEN list
  ELSE PushChapterList(Append(list, ChapterRef(Head(items))), Tail(items))

\* ------------------------------------------------------------ script texts
\* A script text: its length and what evaluating it does to imgHttps.
EmptyScript == [length |-> 0, bind |-> "unbound", value |-> <<>>]

RECURSIVE LongestFirst(_, _)
\* The loop with > in place of >=.
LongestFirst(scriptText, scripts) ==
  IF scripts = <<>> THEN scriptText
  ELSE LongestFirst(IF Head(scripts).length > scriptText.length THEN Head(scripts) ELSE scriptText,
                    Tail(scripts))

RECURSIVE Longest(_, _)
\* The each loop over the script elements: text.length >= scriptText.length.
Longest(scriptText, scripts) ==
  IF scripts = <<>> THEN scriptText
  ELSE Longest(IF Head(scripts).length >= scriptText.length THEN Head(scripts) ELSE scriptText,
               Tail(scripts))

\* new Function(scriptText + ';return imgHttps;')()
EvalImgHttps(scriptText) ==
  CASE scriptText.bind = "syntax" -> Throw("Unexpected token")
    [] scriptText.bind = "unbound" -> Throw("imgHttps is not defined")
    [] OTHER -> Ok([bind |-> scriptText.bind, value |-> scriptText.value])

ChapterImage(url) == [url |-> url, width |-> 1, height |-> 1]

RECURSIVE Dedup(_)
Dedup(urls) ==
  IF urls = <<>> THEN <<>>
  ELSE LET rest == Dedup(SubSeq(urls, 1, Len(urls) - 1))
           last == urls[Len(urls)]
       IN IF \E i \in 1..Len(rest) : rest[i] = last THEN rest ELSE Append(rest, last)

\* The map with repeated URLs dropped.
MapImagesDedup(urls) == [i \in 1..Len(Dedup(urls)) |-> ChapterImage(Dedup(urls)[i])]

\* imgHttps.map(url => ({ url, width: 1, height: 1 }))
MapImages(urls) == [i \in 1..Len(urls) |-> ChapterImage(urls[i])]

\* imgHttps.map on what the script bound: only an array has map.
MapImgHttps(bound) ==
  IF bound.bind = "array" THEN Ok(MapImages(bound.value))
  ELSE Throw("imgHttps.map is not a function")

\* ------------------------------------------------------------------- state
VARIABLES
  pc,        \* per invocation: "idle", the await it is suspended at, or "done"
  call,      \* per invocation: the handler the host invoked and its arguments
  locals,    \* per activation frame: the handler's local variables
  response,  \* per invocation: how the host settled its httpRequest, if it has
  trace      \* per invocation: the host calls and parser calls it made, in order

vars == <<pc, call, locals, response, trace>>

Invocations == 1..NumInvocations

Ev(name, val) == [ev |-> name, val |-> val]

NoCall == [op |-> "none", rawPage |-> Empty, rawPageSize |-> Empty, keyword |-> Undefined,
           url |-> Empty]
\* The locals that live across an await: page (getMangaList and
\* handleMangaListSearch), result of handleMangaListSearch, result of
\* getMangaData.  The result of getMangaList and that of getChapterImageList
\* are created after the await.
EmptyList == [list |-> <<>>]
EmptyData == [title |-> Empty, description |-> Empty, coverUrl |-> Empty, chapterList |-> <<>>]
NoLocals == [page |-> 0, searchResult |-> EmptyList, dataResult |-> EmptyData]

\* The locals as module-level variables, shared by all calls.
SharedFrame(p) == 1

\* Every call of an async function has its own activation record: page, url,
\* result, rawStr are const/let locals or parameters, none is module-level.
Frame(p) == p

Init ==
  /\ pc = [p \in Invocations |-> "idle"]
  /\ call = [p \in Invocations |-> NoCall]
  /\ locals = [f \in Invocations |-> NoLocals]
  /\ response = [p \in Invocations |-> <<>>]
  /\ trace = [p \in Invocations |-> <<>>]

\* A catch that reports an empty result (as the commented-out
\* setMangaListFilterOptions does).
CatchAsResult(tr, error) == Append(tr, Ev("endWithResult", <<>>))

\* A catch that swallows the error.
CatchSilently(tr, error) == tr

\* catch (error) { window.Rulia.endWithException((error as Error).message) }
Catch(tr, error) == Append(tr, Ev("endWithException", error.message))

EndWithResult(tr, result) == Append(tr, Ev("endWithResult", result))

ListingBase == <<"https://mto.to/latest">>

\* if (page > 1) { url = url + '?page=' + page }
HasPageQuery(page) == page > 1

ListingUrl(page) ==
  IF HasPageQuery(page) THEN ListingBase \o <<"?page=">> \o NumberToString(page)
  ELSE ListingBase

SearchUrl(encoded, page) ==
  <<"https://mto.to/search?word=">> \o encoded \o <<"&page=">> \o NumberToString(page)

\* if (keyword)
KeywordGiven(keyword) == Truthy(keyword)

\* handleMangaListSearch up to its await: the result is created, the URL is
\* built inside the try (encodeURIComponent may throw), the request is issued.
handleMangaListSearch(p, page, keyword, before) ==
  LET encoded == encodeURIComponent(keyword)
  IN /\ locals' = [locals EXCEPT ![Frame(p)].page = page,
                                    ![Frame(p)].searchResult = EmptyList]
     /\ IF encoded.ok
        THEN /\ trace' = [trace EXCEPT ![p] =
                            before \o <<Ev("httpRequest", SearchUrl(encoded.val, page))>>]
             /\ pc' = [pc EXCEPT ![p] = "awaitSearch"]
        ELSE /\ trace' = [trace EXCEPT ![p] = Catch(before, encoded)]
             /\ pc' = [pc EXCEPT ![p] = "done"]

\* getMangaList up to its await.
GetMangaList(p, rawPage, rawPageSize, keyword) ==
  /\ pc[p] = "idle"
  /\ call' = [call EXCEPT ![p] = [op |-> "getMangaList", rawPage |-> rawPage,
                                  rawPageSize |-> rawPageSize, keyword |-> keyword,
                                  url |-> Empty]]
  /\ UNCHANGED response
  /\ LET page == parseIntSafe(rawPage, 1)
         toast == Ev("appToast", <<"Request page ">> \o rawPage \o <<", keyword: ">>
                                   \o TemplateOf(keyword))
     IN IF KeywordGiven(keyword)
        THEN handleMangaListSearch(p, page, TemplateOf(keyword), <<toast>>)
        ELSE LET url == ListingUrl(page)
             IN /\ locals' = [locals EXCEPT ![Frame(p)].page = page]
                /\ trace' = [trace EXCEPT ![p] =
                               <<toast, Ev("appToast", url), Ev("httpRequest", url)>>]
                /\ pc' = [pc EXCEPT ![p] = "awaitList"]

\* getMangaData up to its await.
GetMangaData(p, dataPageUrl) ==
  /\ pc[p] = "idle"
  /\ call' = [call EXCEPT ![p] = [NoCall EXCEPT !.op = "getMangaData", !.url = dataPageUrl]]
  /\ locals' = [locals EXCEPT ![Frame(p)].dataResult = EmptyData]
  /\ trace' = [trace EXCEPT ![p] = <<Ev("httpRequest", dataPageUrl)>>]
  /\ pc' = [pc EXCEPT ![p] = "awaitData"]
  /\ UNCHANGED response

\* getChapterImageList up to its await.
GetChapterImageList(p, chapterUrl) ==
  /\ pc[p] = "idle"
  /\ call' = [call EXCEPT ![p] = [NoCall EXCEPT !.op = "getChapterImageList",
                                                !.url = chapterUrl]]
  /\ trace' = [trace EXCEPT ![p] = <<Ev("httpRequest", chapterUrl)>>]
  /\ pc' = [pc EXCEPT ![p] = "awaitImages"]
  /\ UNCHANGED <<locals, response>>

Resolved(rawStr) == <<[ok |-> TRUE, body |-> rawStr, message |-> ""]>>
Rejected(error) == <<[ok |-> FALSE, body |-> PlainText, message |-> error.message]>>

\* if (page <= 1)
IsFirstPage(page) == page <= 1

\* A later page decoded but the raw body, not res.html, parsed.
ListDocumentFromRaw(page, rawStr) ==
  IF IsFirstPage(page)
  THEN [events |-> <<Ev("parseHTML", rawStr)>>, out |-> Ok(ParseHTML(rawStr))]
  ELSE LET response_ == JSONParse(rawStr)
       IN IF ~response_.ok
          THEN [events |-> <<Ev("JSON.parse", rawStr)>>, out |-> Throw(response_.message)]
          ELSE [events |-> <<Ev("JSON.parse", rawStr), Ev("parseHTML", rawStr)>>,
                out |-> Ok(ParseHTML(rawStr))]

\* let $document ... of getMangaList: the first page is markup; a later page
\* is JSON whose res.html is the markup.
ListDocument(page, rawStr) ==
  IF IsFirstPage(page)
  THEN [events |-> <<Ev("parseHTML", rawStr)>>, out |-> Ok(ParseHTML(rawStr))]
  ELSE LET response_ == JSONParse(rawStr)
       IN IF ~response_.ok
          THEN [events |-> <<Ev("JSON.parse", rawStr)>>, out |-> Throw(response_.message)]
          ELSE IF response_.val.res = Undefined
          THEN [events |-> <<Ev("JSON.parse", rawStr)>>,
                out |-> Throw("Cannot read properties of undefined (reading 'html')")]
          ELSE [events |-> <<Ev("JSON.parse", rawStr),
                             Ev("parseHTML", response_.val.res[1].html)>>,
                out |-> Ok(ParseHTML(response_.val.res[1].html))]

\* getMangaList from its await on, the request fulfilled with rawStr.
ResumeMangaList(p, rawStr) ==
  /\ pc[p] = "awaitList"
  /\ response' = [response EXCEPT ![p] = Resolved(rawStr)]
  /\ pc' = [pc EXCEPT ![p] = "done"]
  /\ UNCHANGED <<call, locals>>
  /\ LET document == ListDocument(locals[Frame(p)].page, rawStr)
         tr == trace[p] \o document.events
     IN IF document.out.ok
        THEN LET result == [list |-> PushMangaList(EmptyList.list,
                                                   Children(document.out.val.seriesList))]
             IN trace' = [trace EXCEPT ![p] = EndWithResult(tr, result)]
        ELSE trace' = [trace EXCEPT ![p] = Catch(tr, document.out)]

\* handleMangaListSearch from its await on, the request fulfilled with rawStr.
ResumeSearch(p, rawStr) ==
  /\ pc[p] = "awaitSearch"
  /\ response' = [response EXCEPT ![p] = Resolved(rawStr)]
  /\ pc' = [pc EXCEPT ![p] = "done"]
  /\ UNCHANGED call
  /\ \E document \in DollarOutcomes(rawStr) :
       LET tr == Append(trace[p], Ev("parseHTML", rawStr))
       IN IF document.ok
          THEN LET result == [list |-> PushMangaList(locals[Frame(p)].searchResult.list,
                                                     Children(document.val.seriesList))]
               IN /\ locals' = [locals EXCEPT ![Frame(p)].searchResult = result]
                  /\ trace' = [trace EXCEPT ![p] = EndWithResult(tr, result)]
          ELSE /\ trace' = [trace EXCEPT ![p] = Catch(tr, document)]
               /\ UNCHANGED locals

\* getMangaData from its await on, the request fulfilled with rawStr.
ResumeMangaData(p, rawStr) ==
  /\ pc[p] = "awaitData"
  /\ response' = [response EXCEPT ![p] = Resolved(rawStr)]
  /\ pc' = [pc EXCEPT ![p] = "done"]
  /\ UNCHANGED call
  /\ LET document == ParseHTML(rawStr)
         tr == Append(trace[p], Ev("parseHTML", rawStr))
         result == [title |-> OrEmpty(Some(TextOf(document.itemTitle))),
                    description |-> OrEmpty(Some(TextOf(document.summary))),
                    coverUrl |-> OrEmpty(AttrSrc(document.attrCoverImg)),
                    chapterList |-> PushChapterList(locals[Frame(p)].dataResult.chapterList,
                                                    Children(document.episodeMain))]
     IN /\ locals' = [locals EXCEPT ![Frame(p)].dataResult = result]
        /\ trace' = [trace EXCEPT ![p] = EndWithResult(tr, result)]

\* getChapterImageList from its await on, the request fulfilled with rawStr.
ResumeChapterImageList(p, rawStr) ==
  /\ pc[p] = "awaitImages"
  /\ response' = [response EXCEPT ![p] = Resolved(rawStr)]
  /\ pc' = [pc EXCEPT ![p] = "done"]
  /\ UNCHANGED <<call, locals>>
  /\ LET document == ParseHTML(rawStr)
         scriptText == Longest(EmptyScript, document.scripts)
         tr == trace[p] \o <<Ev("parseHTML", rawStr), Ev("newFunction", scriptText)>>
         imgHttps == EvalImgHttps(scriptText)
         result == IF imgHttps.ok THEN MapImgHttps(imgHttps.val) ELSE imgHttps
     IN IF result.ok
        THEN trace' = [trace EXCEPT ![p] = EndWithResult(tr, result.val)]
        ELSE trace' = [trace EXCEPT ![p] = Catch(tr, result)]

Awaiting == {"awaitList", "awaitSearch", "awaitData", "awaitImages"}

\* Any handler from its await on, the request rejected with error: the await
\* throws inside the try and the catch block runs.
RequestRejected(p, error) ==
  /\ pc[p] \in Awaiting
  /\ response' = [response EXCEPT ![p] = Rejected(error)]
  /\ pc' = [pc EXCEPT ![p] = "done"]
  /\ trace' = [trace EXCEPT ![p] = Catch(trace[p], error)]
  /\ UNCHANGED <<call, locals>>

\* ------------------------------------------------------------------ inputs
SeqsUpTo(S, n) == UNION {[1..k -> S] : k \in 0..n}

PageChars == {"1", "2", "a", "-", " "}
PageStrings == SeqsUpTo(PageChars, MaxPageLen)
SamplePages == {Empty, <<"1">>, <<"2">>, <<"1", "0">>, <<"-", "1">>, <<"a", "b", "c">>}
PageSizes == {Empty, <<"2", "0">>}

KeywordChars == {"a", "&", LoneSurrogate}
Keywords == {Undefined} \cup {Some(k) : k \in SeqsUpTo(KeywordChars, MaxKeywordLen)}
SampleKeywords == {Undefined, Some(Empty), Some(<<"a", " ", "b">>), Some(<<LoneSurrogate>>)}

Hrefs == {Undefined, Some(Empty), Some(<<"/series/1">>)}
Srcs == {Undefined, Some(Empty), Some(<<"https://img/c.jpg">>)}

TitleMatches ==
  {<<>>} \cup {<<Node(<<"T">>, h, Undefined)>> : h \in Hrefs}
         \cup {<<Node(Empty, Some(<<"/series/1">>), Undefined)>>,
               <<Node(<<"T">>, Some(<<"/series/1">>), Undefined),
                 Node(<<"b">>, Some(<<"/series/2">>), Undefined)>>}
CoverMatches == {<<>>} \cup {<<Node(Empty, Undefined, s)>> : s \in Srcs}
ListItems == [title : TitleMatches, cover : CoverMatches]

ListDocs ==
  {EmptyDoc} \cup {[EmptyDoc EXCEPT !.seriesList = <<items>>] : items \in SeqsUpTo(ListItems, MaxItems)}

WithEnvelopes(docs) ==
  {HtmlText(d) : d \in docs} \cup {Envelope(d) : d \in docs} \cup {ErrorEnvelope, PlainText}

ListBodies == WithEnvelopes(ListDocs)

ChaptMatches == {<<>>} \cup {<<Node(<<"C", "h">>, h, Undefined)>> :
                                h \in {Undefined, Some(Empty), Some(<<"/chapter/42">>)}}
EpisodeItems == [chapt : ChaptMatches]

DetailDocs ==
  {[EmptyDoc EXCEPT !.itemTitle = t, !.summary = d, !.attrCoverImg = c, !.episodeMain = e] :
     t \in {<<>>, <<Node(<<"T">>, Undefined, Undefined)>>,
            <<Node(<<"T">>, Undefined, Undefined), Node(<<"b">>, Undefined, Undefined)>>},
     d \in {<<>>, <<Node(<<"D">>, Undefined, Undefined)>>},
     c \in {<<>>} \cup {<<Node(Empty, Undefined, s)>> : s \in Srcs},
     e \in {<<>>} \cup {<<items>> : items \in SeqsUpTo(EpisodeItems, MaxChapters)}}

DetailBodies == {HtmlText(d) : d \in DetailDocs} \cup {ErrorEnvelope, PlainText}

ImageUrls == {"u1", "u2"}
ScriptLengths == {1, 2}
ScriptTexts ==
  {EmptyScript}
  \cup {[length |-> n, bind |-> b, value |-> <<>>] :
          n \in ScriptLengths, b \in {"syntax", "unbound", "number"}}
  \cup {[length |-> n, bind |-> "array", value |-> v] :
          n \in ScriptLengths, v \in SeqsUpTo(ImageUrls, MaxImages)}

ChapterDocs == {[EmptyDoc EXCEPT !.scripts = s] : s \in SeqsUpTo(ScriptTexts, MaxScripts)}
ChapterBodies == {HtmlText(d) : d \in ChapterDocs} \cup {ErrorEnvelope, PlainText}

PageUrls == {<<"https://mto.to/series/1">>, Empty}
Errors == {[message |-> "Network Error"], [message |-> "timeout"]}

\* One document of each kind, for the runs that vary something else.
OneItem == [title |-> <<Node(<<"T">>, Some(<<"/series/1">>), Undefined)>>,
            cover |-> <<Node(Empty, Undefined, Some(<<"https://img/c.jpg">>))>>]
OneListDoc == [EmptyDoc EXCEPT !.seriesList = <<<<OneItem>>>>]
OneDetailDoc ==
  [EmptyDoc EXCEPT !.itemTitle = <<Node(<<"T">>, Undefined, Undefined)>>,
                   !.episodeMain = <<<<[chapt |-> <<Node(<<"C", "h">>, Some(<<"/chapter/42">>),
                                                         Undefined)>>]>>>>]
OneChapterDoc ==
  [EmptyDoc EXCEPT !.scripts = <<[length |-> 2, bind |-> "array", value |-> <<"u1", "u2">>]>>]
FewListBodies == {HtmlText(OneListDoc), Envelope(OneListDoc), PlainText}

\* -------------------------------------------------------------- behaviours
\* The host invokes handlers and settles their requests, drawing from the
\* given sets.
Step(P, pages, sizes, keywords, listBodies, urls, detailBodies, chapterBodies, errors) ==
  \E p \in P :
    \/ /\ pc[p] = "idle"
       /\ \E rawPage \in pages, rawPageSize \in sizes, keyword \in keywords :
            GetMangaList(p, rawPage, rawPageSize, keyword)
    \/ /\ pc[p] = "idle"
       /\ \E url \in urls : GetMangaData(p, url)
    \/ /\ pc[p] = "idle"
       /\ \E url \in urls : GetChapterImageList(p, url)
    \/ /\ pc[p] = "awaitList"
       /\ \E rawStr \in listBodies : ResumeMangaList(p, rawStr)
    \/ /\ pc[p] = "awaitSearch"
       /\ \E rawStr \in listBodies : ResumeSearch(p, rawStr)
    \/ /\ pc[p] = "awaitData"
       /\ \E rawStr \in detailBodies : ResumeMangaData(p, rawStr)
    \/ /\ pc[p] = "awaitImages"
       /\ \E rawStr \in chapterBodies : ResumeChapterImageList(p, rawStr)
    \/ /\ pc[p] \in Awaiting
       /\ \E error \in errors : RequestRejected(p, error)

\* One invocation, every response body.
Next ==
  Step({1}, SamplePages, {<<"2", "0">>}, SampleKeywords, ListBodies, PageUrls, DetailBodies,
       ChapterBodies, Errors)

Spec == Init /\ [][Next]_vars

\* One invocation, every argument string.
NextArgs ==
  Step({1}, PageStrings, PageSizes, Keywords, FewListBodies, {<<"https://mto.to/series/1">>},
       {HtmlText(OneDetailDoc)}, {HtmlText(OneChapterDoc)}, {[message |-> "Network Error"]})

SpecArgs == Init /\ [][NextArgs]_vars

\* Several invocations in flight at once, their requests settled in any order.
NextConcurrent ==
  Step(Invocations, {<<"1">>, <<"2">>}, {<<"2", "0">>}, {Undefined, Some(<<"a">>)},
       {HtmlText(OneListDoc), Envelope(OneListDoc)}, {<<"https://mto.to/series/1">>},
       {HtmlText(OneDetailDoc)}, {HtmlText(OneChapterDoc)}, {[message |-> "Network Error"]})

SpecConcurrent == Init /\ [][NextConcurrent]_vars

\* ------------------------------------------------------------ observations
Events(p, name) == SelectSeq(trace[p], LAMBDA e : e.ev = name)
Signals(p) == SelectSeq(trace[p], LAMBDA e : e.ev \in {"endWithResult", "endWithException"})
Started(p) == pc[p] # "idle"
Done(p) == pc[p] = "done"
Fulfilled(p) == response[p] # <<>> /\ response[p][1].ok
Failed(p) == response[p] # <<>> /\ ~response[p][1].ok
Body(p) == response[p][1].body
ListingCall(p) == call[p].op = "getMangaList" /\ ~Truthy(call[p].keyword)
SearchCall(p) == call[p].op = "getMangaList" /\ Truthy(call[p].keyword)

C2_SingleFetchAborts ==
  \A p \in Invocations :
    /\ Len(Events(p, "httpRequest")) <= 1
    /\ Failed(p) =>
         /\ Len(Events(p, "httpRequest")) = 1
         /\ Events(p, "endWithResult") = <<>>
         /\ Signals(p) = <<Ev("endWithException", response[p][1].message)>>
         /\ trace[p][Len(trace[p])].ev = "endWithException"

C2_Witness ==
  /\ Failed(1)
  /\ SearchCall(1)
  /\ response[1][1].message = "timeout"
  /\ Signals(1) = <<Ev("endWithException", "timeout")>>

\* C3: getMangaList without a keyword requests the bare listing URL and hands
\* the raw body to the HTML parser, with no JSON decode, when the page is
\* <= 1; when the page N is > 1 it requests the listing URL with ?page=N,
\* JSON-decodes the raw body and hands res.html, not the raw body, to the
\* parser, and a body that is not JSON ends in endWithException.
C3_PageBranch ==
  \A p \in Invocations :
    (ListingCall(p) /\ Started(p)) =>
      LET page == locals[p].page
      IN /\ page <= 1 =>
              /\ Events(p, "httpRequest") = <<Ev("httpRequest", <<"https://mto.to/latest">>)>>
              /\ Events(p, "JSON.parse") = <<>>
              /\ Fulfilled(p) => Events(p, "parseHTML") = <<Ev("parseHTML", Body(p))>>
         /\ page > 1 =>
              /\ Events(p, "httpRequest") =
                   <<Ev("httpRequest",
                        <<"https://mto.to/latest", "?page=">> \o NumberToString(page))>>
              /\ Fulfilled(p) =>
                   /\ Events(p, "JSON.parse") = <<Ev("JSON.parse", Body(p))>>
                   /\ Body(p).kind # "json" =>
                        /\ Events(p, "parseHTML") = <<>>
                        /\ Len(Events(p, "endWithException")) = 1
                   /\ (Body(p).kind = "json" /\ Body(p).res # <<>>) =>
                        /\ Events(p, "parseHTML") = <<Ev("parseHTML", Body(p).res[1].html)>>
                        /\ Body(p).res[1].html # Body(p)
                        /\ Signals(p) =
                             <<Ev("endWithResult",
                                  [list |-> PushMangaList(<<>>,
                                      Children(Body(p).res[1].html.doc.seriesList))])>>

C3_Witness ==
  /\ ListingCall(1)
  /\ locals[1].page = 10
  /\ Fulfilled(1)
  /\ Body(1).kind = "json"
  /\ Body(1).res # <<>>
  /\ Len(Events(1, "endWithResult")) = 1
  /\ Events(1, "endWithResult")[1].val.list # <<>>

\* A page string is numeric when, white space around it aside, it is an
\* optional sign and decimal digits and nothing else.
Trimmed(s) ==
  LET idx == {i \in 1..Len(s) : s[i] # " "}
  IN IF idx = {} THEN Empty
     ELSE SubSeq(s, CHOOSE i \in idx : \A j \in idx : i <= j,
                    CHOOSE i \in idx : \A j \in idx : j <= i)
Unsigned(s) == IF s # Empty /\ s[1] \in {"+", "-"} THEN Tail(s) ELSE s
IsNumeric(s) ==
  LET u == Unsigned(Trimmed(s))
  IN u # Empty /\ \A i \in 1..Len(u) : IsDigit(u[i])
NumericValue(s) ==
  LET t == Trimmed(s)
  IN IF t[1] = "-" THEN 0 - DecimalValue(Unsigned(t)) ELSE DecimalValue(Unsigned(t))

\* The integer a page string starts with: white space, an optional sign, the
\* longest run of digits (at positions a..b); none when no digit is there.
LeadingIntegers(s) ==
  {[neg |-> a > 1 /\ s[a - 1] = "-", digits |-> SubSeq(s, a, b)] :
     <<a, b>> \in {ab \in (1..Len(s)) \X (1..Len(s)) :
                    /\ ab[1] <= ab[2]
                    /\ \A k \in ab[1]..ab[2] : IsDigit(s[k])
                    /\ ab[2] < Len(s) => ~IsDigit(s[ab[2] + 1])
                    /\ \/ \A k \in 1..(ab[1] - 1) : s[k] = " "
                       \/ /\ s[ab[1] - 1] \in {"+", "-"}
                          /\ \A k \in 1..(ab[1] - 2) : s[k] = " "}}

\* The page such a string stands for, 1 standing in when it has no integer.
ExpectedPage(s) ==
  IF LeadingIntegers(s) = {} THEN 1
  ELSE LET n == CHOOSE n \in LeadingIntegers(s) : TRUE
       IN IF n.neg THEN 0 - DecimalValue(n.digits) ELSE DecimalValue(n.digits)

PageArgumentHarmless(p) ==
  \* The page argument ends nothing: the request is issued whatever it is,
  \* and nothing is signalled before the request is settled.
  /\ Len(Events(p, "httpRequest")) = 1
  /\ pc[p] \in Awaiting => Signals(p) = <<>>

C4_WitnessDefault ==
  /\ ListingCall(1)
  /\ call[1].rawPage = <<"a", "2">>
  /\ locals[1].page = 1
  /\ Done(1)

\* The percent-encoding of the keyword characters of the model.
PercentEncoded(c) == IF c = "&" THEN <<"%", "2", "6">> ELSE <<c>>

\* C5: with a non-empty keyword, whatever page and pageSize are, the only
\* request is the one to the search URL with the URL-encoded keyword and
\* the parsed page; the listing URL is never requested, the response is
\* never JSON-decoded, and the one signal is that of handleMangaListSearch.
C5_KeywordDelegatesToSearch ==
  \A p \in Invocations :
    (SearchCall(p) /\ Started(p)) =>
      LET keyword == call[p].keyword[1]
          page == ExpectedPage(call[p].rawPage)
          url == <<"https://mto.to/search?word=">>
                   \o Flatten([i \in 1..Len(keyword) |-> PercentEncoded(keyword[i])])
                   \o <<"&page=">> \o NumberToString(page)
      IN /\ \A i \in 1..Len(trace[p]) :
              trace[p][i].ev = "httpRequest" => trace[p][i].val = url
         /\ Len(Events(p, "httpRequest")) <= 1
         /\ Events(p, "JSON.parse") = <<>>
         /\ pc[p] \in {"awaitSearch", "done"}
         /\ pc[p] = "awaitSearch" => Len(Events(p, "httpRequest")) = 1
         /\ Len(Signals(p)) <= 1
         /\ Done(p) => Len(Signals(p)) = 1
         /\ Fulfilled(p) /\ Body(p).kind = "html" =>
              Signals(p) = <<Ev("endWithResult",
                                [list |-> PushMangaList(<<>>, Children(Body(p).doc.seriesList))])>>

C5_Witness ==
  /\ SearchCall(1)
  /\ call[1].keyword = Some(<<"&">>)
  /\ call[1].rawPage = <<"2", "2">>
  /\ call[1].rawPageSize = Empty
  /\ Fulfilled(1)
  /\ Body(1).kind = "json"
  /\ Events(1, "httpRequest") =
       <<Ev("httpRequest", <<"https://mto.to/search?word=", "%", "2", "6", "&page=", "2", "2">>)>>

\* The document the invocation's parser call produced, and what it emitted.
ParsedDoc(p) == ParseHTML(Events(p, "parseHTML")[1].val)
Emitted(p) == Events(p, "endWithResult")[1].val
EmitsResult(p) == Done(p) /\ Len(Events(p, "endWithResult")) = 1 /\ Events(p, "parseHTML") # <<>>

FirstHref(nodes) == IF nodes = <<>> THEN <<>> ELSE nodes[1].href
FirstSrc(nodes) == IF nodes = <<>> THEN <<>> ELSE nodes[1].src
UrlFromHref(href, url) ==
  IF href # <<>> /\ href[1] # <<>> THEN url = <<"https://mto.to">> \o href[1] ELSE url = <<>>
UrlFromSrc(src, url) == IF src # <<>> THEN url = src[1] ELSE url = <<>>

\* C6: in every emitted result a url taken from an href is the origin
\* followed by the href when the href is non-empty and is the empty string
\* when the href is empty or missing; a coverUrl taken from a src is the src
\* verbatim, or the empty string when the src is missing.
C6_AbsoluteUrls ==
  \A p \in Invocations :
    EmitsResult(p) =>
      /\ call[p].op = "getMangaList" =>
           LET items == Children(ParsedDoc(p).seriesList)
           IN /\ Len(Emitted(p).list) = Len(items)
              /\ \A i \in 1..Len(items) :
                   /\ UrlFromHref(FirstHref(items[i].title), Emitted(p).list[i].url)
                   /\ UrlFromSrc(FirstSrc(items[i].cover), Emitted(p).list[i].coverUrl)
      /\ call[p].op = "getMangaData" =>
           LET items == Children(ParsedDoc(p).episodeMain)
           IN /\ Len(Emitted(p).chapterList) = Len(items)
              /\ \A i \in 1..Len(items) :
                   UrlFromHref(FirstHref(items[i].chapt), Emitted(p).chapterList[i].url)
              /\ UrlFromSrc(FirstSrc(ParsedDoc(p).attrCoverImg), Emitted(p).coverUrl)

C6_Witness ==
  /\ EmitsResult(1)
  /\ SearchCall(1)
  /\ Len(Emitted(1).list) = 1
  /\ Children(ParsedDoc(1).seriesList)[1].title # <<>>
  /\ Children(ParsedDoc(1).seriesList)[1].title[1].href = Some(Empty)
  /\ Emitted(1).list[1].url = Empty
  /\ Emitted(1).list[1].coverUrl = <<"https://img/c.jpg">>

C6_WitnessChapter ==
  /\ EmitsResult(1)
  /\ call[1].op = "getMangaData"
  /\ Len(Emitted(1).chapterList) = 1
  /\ Emitted(1).chapterList[1].url = <<"https://mto.to", "/chapter/42">>

\* The fetch succeeded and the body parsed.
BodyParsed(p) ==
  /\ Done(p)
  /\ Fulfilled(p)
  /\ ListingCall(p) => (locals[p].page <= 1 \/ (Body(p).kind = "json" /\ Body(p).res # <<>>))
  /\ SearchCall(p) => Body(p).kind = "html"
  /\ call[p].op \in {"getMangaList", "getMangaData"}

\* C7: when the fetch succeeds and the body parses, a selector that matches
\* no node is no error in the list, search and detail operations: the field
\* takes its empty default, an empty or absent #series-list gives
\* endWithResult({list: []}), and a detail document matching no selector
\* gives endWithResult with empty title, description, coverUrl and
\* chapterList.
C7_SelectorMissDefaults ==
  \A p \in Invocations :
    BodyParsed(p) =>
      /\ Len(Events(p, "endWithException")) = 0
      /\ Len(Events(p, "endWithResult")) = 1
      /\ call[p].op = "getMangaList" =>
           LET items == Children(ParsedDoc(p).seriesList)
           IN /\ items = <<>> => Emitted(p) = [list |-> <<>>]
              /\ Len(Emitted(p).list) = Len(items)
              /\ \A i \in 1..Len(items) :
                   /\ items[i].title = <<>> =>
                        Emitted(p).list[i].title = <<>> /\ Emitted(p).list[i].url = <<>>
                   /\ items[i].cover = <<>> => Emitted(p).list[i].coverUrl = <<>>
      /\ call[p].op = "getMangaData" =>
           LET doc == ParsedDoc(p)
           IN /\ doc.itemTitle = <<>> => Emitted(p).title = <<>>
              /\ doc.summary = <<>> => Emitted(p).description = <<>>
              /\ doc.attrCoverImg = <<>> => Emitted(p).coverUrl = <<>>
              /\ Children(doc.episodeMain) = <<>> => Emitted(p).chapterList = <<>>
              /\ \A i \in 1..Len(Children(doc.episodeMain)) :
                   Children(doc.episodeMain)[i].chapt = <<>> =>
                     Emitted(p).chapterList[i] = [title |-> <<>>, url |-> <<>>]
              /\ doc = EmptyDoc =>
                   Emitted(p) = [title |-> <<>>, description |-> <<>>, coverUrl |-> <<>>,
                                 chapterList |-> <<>>]

C7_Witness ==
  /\ BodyParsed(1)
  /\ call[1].op = "getMangaData"
  /\ ParsedDoc(1) = EmptyDoc
  /\ Emitted(1).chapterList = <<>>

C7_WitnessList ==
  /\ BodyParsed(1)
  /\ ListingCall(1)
  /\ locals[1].page > 1
  /\ ParsedDoc(1).seriesList = <<<<>>>>
  /\ Emitted(1) = [list |-> <<>>]

C7_WitnessItem ==
  /\ BodyParsed(1)
  /\ SearchCall(1)
  /\ Len(Emitted(1).list) = 1
  /\ Children(ParsedDoc(1).seriesList)[1] = [title |-> <<>>, cover |-> <<>>]

\* The script text handed to new Function.
Evaluated(p) == Events(p, "newFunction")[1].val
ImagesDone(p) == Done(p) /\ call[p].op = "getChapterImageList" /\ Fulfilled(p)

\* C8: when the selected script binds imgHttps to a sequence of URL strings,
\* getChapterImageList emits a sequence of the same length whose i-th element
\* is {url: the i-th string, width: 1, height: 1}.
C8_ImagesInOrder ==
  \A p \in Invocations :
    (ImagesDone(p) /\ Evaluated(p).bind = "array") =>
      /\ Signals(p) # <<>>
      /\ Signals(p)[1].ev = "endWithResult"
      /\ Len(Signals(p)) = 1
      /\ LET urls == Evaluated(p).value
             images == Signals(p)[1].val
         IN /\ Len(images) = Len(urls)
            /\ \A i \in 1..Len(urls) : images[i] = [url |-> urls[i], width |-> 1, height |-> 1]

C8_Witness ==
  /\ ImagesDone(1)
  /\ Evaluated(1).bind = "array"
  /\ Evaluated(1).value = <<"u2", "u2">>
  /\ Len(Emitted(1)) = 2

\* The positions of the script elements of greatest text length.
LongestAt(scripts) ==
  {i \in 1..Len(scripts) : \A j \in 1..Len(scripts) : scripts[j].length <= scripts[i].length}

\* C9 as stated: the script evaluated is the one of greatest text length,
\* the first in document order when several share that length.
C9_FirstLongest ==
  \A p \in Invocations :
    ImagesDone(p) =>
      LET scripts == ParsedDoc(p).scripts
      IN scripts # <<>> =>
           Evaluated(p) = scripts[CHOOSE i \in LongestAt(scripts) :
                                    \A j \in LongestAt(scripts) : i <= j]

\* C9, amended: the script evaluated is the one of greatest text length, the
\* last in document order when several share that length (the empty text
\* when the document has no script element).
C9_LastLongest ==
  \A p \in Invocations :
    ImagesDone(p) =>
      LET scripts == ParsedDoc(p).scripts
      IN /\ scripts = <<>> => Evaluated(p) = EmptyScript
         /\ scripts # <<>> =>
              Evaluated(p) = scripts[CHOOSE i \in LongestAt(scripts) :
                                       \A j \in LongestAt(scripts) : j <= i]

C9_Witness ==
  /\ ImagesDone(1)
  /\ Len(ParsedDoc(1).scripts) = 2
  /\ ParsedDoc(1).scripts[1].length = 2
  /\ ParsedDoc(1).scripts[2].length = 2
  /\ ParsedDoc(1).scripts[1].bind = "array"
  /\ ParsedDoc(1).scripts[2].bind = "unbound"
  /\ Evaluated(1) = ParsedDoc(1).scripts[2]
  /\ Signals(1) = <<Ev("endWithException", "imgHttps is not defined")>>

\* What an invocation signals when it runs alone: its handler applied to its
\* own arguments and its own response, from fresh locals.
Signal(outcome) ==
  IF outcome.ok THEN Ev("endWithResult", outcome.val)
  ELSE Ev("endWithException", outcome.message)

SameSignal(a, b) == a.ev = b.ev /\ a.val = b.val

AloneOutcomes(c, r) ==
  IF ~r.ok THEN {Throw(r.message)}
  ELSE CASE c.op = "getMangaList" /\ ~Truthy(c.keyword) ->
              LET document == ListDocument(parseIntSafe(c.rawPage, 1), r.body).out
              IN IF document.ok
                 THEN {Ok([list |-> PushMangaList(<<>>, Children(document.val.seriesList))])}
                 ELSE {document}
         [] c.op = "getMangaList" /\ Truthy(c.keyword) ->
              {IF document.ok
               THEN Ok([list |-> PushMangaList(<<>>, Children(document.val.seriesList))])
               ELSE document : document \in DollarOutcomes(r.body)}
         [] c.op = "getMangaData" ->
              LET document == ParseHTML(r.body)
              IN {Ok([title |-> TextOf(document.itemTitle),
                      description |-> TextOf(document.summary),
                      coverUrl |-> OrEmpty(AttrSrc(document.attrCoverImg)),
                      chapterList |-> PushChapterList(<<>>, Children(document.episodeMain))])}
         [] OTHER ->
              LET imgHttps == EvalImgHttps(Longest(EmptyScript, ParseHTML(r.body).scripts))
              IN {IF imgHttps.ok THEN MapImgHttps(imgHttps.val) ELSE imgHttps}

====
